---- MODULE Spec2Model ----
(***************************************************************************)
(* Model of golucene's segment-lifecycle core:                             *)
(*   - SerialMergeScheduler (core/index/merge.go)                          *)
(*   - KeepOnlyLastCommitDeletionPolicy (index deletion policy)            *)
(*   - LockImpl.ObtainWithin (store lock polling)                          *)
(*   - BytesStore and its forward readers (index/bytes.go)                 *)
(*   - IndexFileDeleter and ConcurrentMergeScheduler (unimplemented)       *)
(***************************************************************************)
EXTENDS Integers, Sequences, FiniteSets, TLC

(***************************************************************************)
(* Bounds of the model.                                                    *)
(***************************************************************************)
NumThreads == 2
MaxScheds == 2
MaxMerges == 2
MaxDrain == 3
NumCommits == 7
MaxTimeoutSteps == 6
MaxAttempts == 5
MaxWriterCommits == 3
MaxBlockBits == 1
MaxBytes == 4
MaxByte == 1
NumFiles == 2
MaxCheckpoints == 3
MaxPending == 3
MaxMergeCount == 3
BaseLength == 4
MaxSetCalls == 4

Threads == 1..NumThreads

(***************************************************************************)
(* Go's nil, for a *OneMerge and for an error.                             *)
(***************************************************************************)
NoMerge == 0
Nil == <<>>

VARIABLES
    \* ---- SerialMergeScheduler and its callers ----
    mutexes,     \* mutexes[m]: TRUE iff sync.Mutex m is locked
    locker,      \* locker[s]: the mutex embedded in scheduler instance s
    queue,       \* queue[w]: pending merges of IndexWriter w, oldest first
    pc,          \* pc[t]: position of goroutine t inside Merge
    ms,          \* ms[t]: the scheduler instance goroutine t called Merge on
    writer,      \* writer[t]: the writer argument of that call
    merge,       \* merge[t]: the loop variable of that call
    err,         \* err[t]: the named result of that call
    pulled,      \* pulled[t]: merges nextMerge returned to that call, in order
    executed,    \* executed[t]: <<merge, result>> of each writer.merge call
    \* ---- KeepOnlyLastCommitDeletionPolicy ----
    commits,     \* the commit list of the last onInit/onCommit call, oldest first
    deleteCalls, \* the commits that call called Delete() on, in call order
    policyOp,    \* which hook was called last: "none", "onInit" or "onCommit"
    policyErr,   \* the error that call returned
    \* ---- LockImpl.ObtainWithin ----
    lockPc,          \* "idle", "loop" (at the loop's condition), "sleeping" (in
                     \* time.Sleep), "returned", "panicked"
    lockWaitTimeout, \* the argument of the call
    locked,          \* result: locked
    lockErr,         \* result: err
    failureReason,   \* LockImpl.failureReason
    sleepCount,      \* loop variable
    maxSleepCount,   \* lockWaitTimeout / LOCK_POOL_INTERVAL
    attempts,        \* Obtain() calls made by the current call
    slept,           \* milliseconds the current call spent in time.Sleep
    recorded,        \* the reason the last Obtain() of the current call that
                     \* recorded one has left on the lock (Nil: none did)
    onlyFailed,      \* every Obtain() of the current call returned (false, nil)
    firstSuccess,    \* the first attempt that returned (true, nil), 0 if none
    \* ---- a writer tracking its commits under the deletion policy ----
    trackPc,     \* "new" (no writer opened on the index yet) or "open"
    tracked,     \* the commits the writer tracks as live, oldest first
    generation,  \* the generation of the newest commit ever made, 0 if none
    \* ---- BytesStore and its forward readers ----
    store,       \* the BytesStore: blockBits, blockSize, blockMask, blocks,
                 \* current (index of the block it aliases, 0 for nil),
                 \* nextWrite, panicked (a write indexed out of range)
    prevStore,   \* the store before the last write call
    written,     \* every byte handed to WriteByte/WriteBytes so far, in order
    lastOp,      \* the last store call: "new", "WriteByte", "WriteBytes", ...
    lastBuf,     \* the bytes handed to the last write call
    reader,      \* the reader forwardReader() returned (kind "none": not yet)
    readLog,     \* every byte the reader returned to its caller, in order
    expectedPos, \* the absolute offset of the next byte the reader is to read,
                 \* as the calls made so far define it
    prevPos,     \* what getPosition() returned before the last setPosition or
                 \* skipBytes call
    lastArg,     \* the argument of that call: pos or count
    \* ---- IndexFileDeleter ----
    checkpoints, \* the checkpoint calls made: <<files, isCommit>> each, in order
    delPanicked, \* the last checkpoint call panicked
    \* ---- ConcurrentMergeScheduler ----
    cmsMutex,    \* the embedded sync.Mutex is locked
    cmsPc,       \* "idle", or "locked" (inside Merge, holding the lock)
    cmsLast,     \* the last method called: "none", "SetMaxMergesAndRoutines", "Merge"
    cmsPanicked, \* that call panicked
    requested,   \* <<maxMergeCount, maxRoutineCount>> last asked for, Nil if none
    pending,     \* sizes of the writer's pending merges, in queue order
    admitted,    \* sizes of the merges the scheduler started, in start order
    \* ---- SlicedIndexInput over a base IndexInput ----
    basePos,     \* the position of the base input
    sliceOp,     \* "none", or "readInternal" once it was called
    sliceCall,   \* the last readInternal call: the slice's fileOffset and length,
                 \* start (its file pointer), n (len(buf)), err, out (the bytes
                 \* put in buf), sought (base positions sought), read (<<from,
                 \* n>> of each read asked of the base)
    \* ---- FSLockFactory ----
    lockDir,     \* FSLockFactory.lockDir
    dirCalls,    \* the arguments of the setLockDir calls made, in order
    dirPanicked  \* the last setLockDir call panicked

mergeVars == <<mutexes, locker, queue, pc, ms, writer, merge, err, pulled, executed>>
policyVars == <<commits, deleteCalls, policyOp, policyErr>>
lockVars == <<lockPc, lockWaitTimeout, locked, lockErr, failureReason, sleepCount,
              maxSleepCount, attempts, slept, recorded, onlyFailed, firstSuccess>>

trackVars == <<trackPc, tracked, generation>>
bytesVars == <<store, prevStore, written, lastOp, lastBuf, reader, readLog,
               expectedPos, prevPos, lastArg>>
deleterVars == <<checkpoints, delPanicked>>
cmsVars == <<cmsMutex, cmsPc, cmsLast, cmsPanicked, requested, pending, admitted>>
sliceVars == <<basePos, sliceOp, sliceCall>>
factoryVars == <<lockDir, dirCalls, dirPanicked>>

vars == <<mergeVars, policyVars, lockVars, trackVars, bytesVars, deleterVars, cmsVars,
    sliceVars, factoryVars>>

\* what the actions of one component leave alone
notMergeVars == <<policyVars, lockVars, trackVars, bytesVars, deleterVars, cmsVars,
    sliceVars, factoryVars>>
notPolicyVars == <<mergeVars, lockVars, trackVars, bytesVars, deleterVars, cmsVars,
    sliceVars, factoryVars>>
notLockVars == <<mergeVars, policyVars, trackVars, bytesVars, deleterVars, cmsVars,
    sliceVars, factoryVars>>
notTrackVars == <<mergeVars, lockVars, bytesVars, deleterVars, cmsVars,
    sliceVars, factoryVars>>
notBytesVars == <<mergeVars, policyVars, lockVars, trackVars, deleterVars, cmsVars,
    sliceVars, factoryVars>>
notDeleterVars == <<mergeVars, policyVars, lockVars, trackVars, bytesVars, cmsVars,
    sliceVars, factoryVars>>
notSliceVars == <<mergeVars, policyVars, lockVars, trackVars, bytesVars, deleterVars,
    cmsVars, factoryVars>>
notFactoryVars == <<mergeVars, policyVars, lockVars, trackVars, bytesVars, deleterVars,
    cmsVars, sliceVars>>
notCmsVars == <<mergeVars, policyVars, lockVars, trackVars, bytesVars, deleterVars,
    sliceVars, factoryVars>>

(***************************************************************************)
(* IndexWriter's merge queue, as the scheduler consumes it.                *)
(***************************************************************************)
\* writer.nextMerge(): the merge it returns (nil when the queue is empty)
nextMerge(q) == IF q = <<>> THEN NoMerge ELSE Head(q)
\* writer.nextMerge(): the queue it leaves
nextMergeQueue(q) == IF q = <<>> THEN q ELSE Tail(q)
\* the error writer.merge(m) returns when merge m fails
MergeError(w, m) == <<"merge failed", w, m>>
\* the results writer.merge(m) can return
mergeResults(w, m) == {Nil, MergeError(w, m)}

(***************************************************************************)
(* SerialMergeScheduler                                                    *)
(***************************************************************************)
\* the loop condition of Merge, ignoring the error of the last merge
LoopCondIgnoringErr(m, e) == m # NoMerge
\* the loop condition of Merge: merge != nil && err == nil
LoopCond(m, e) == m # NoMerge /\ e = Nil

\* a Lock that does not wait
CanLockAlways(m) == TRUE
\* sync.Mutex.Lock can proceed when the mutex is not locked
CanLock(m) == ~mutexes[m]

\* NewSerialMergeScheduler shape that reuses the receiver's mutex
NewSchedulerSharing(from) ==
    /\ locker' = Append(locker, locker[from])
    /\ UNCHANGED mutexes
\* NewSerialMergeScheduler(): a scheduler around a fresh, unlocked mutex
NewSerialMergeScheduler(from) ==
    /\ mutexes' = Append(mutexes, FALSE)
    /\ locker' = Append(locker, Len(mutexes) + 1)

\* ms.Clone(), for another IndexWriter, which has its own pending merges
Clone(s, q) ==
    /\ Len(locker) < MaxScheds
    /\ NewSerialMergeScheduler(s)
    /\ queue' = Append(queue, q)
    /\ UNCHANGED <<pc, ms, writer, merge, err, pulled, executed>>
    /\ UNCHANGED notMergeVars

\* goroutine t calls s.Merge(w); err starts as nil
CallMerge(t, s, w) ==
    /\ pc[t] = "idle"
    /\ pc' = [pc EXCEPT ![t] = "lock"]
    /\ ms' = [ms EXCEPT ![t] = s]
    /\ writer' = [writer EXCEPT ![t] = w]
    /\ UNCHANGED <<mutexes, locker, queue, merge, err, pulled, executed>>
    /\ UNCHANGED notMergeVars

\* ms.Lock()
Lock(t) ==
    /\ pc[t] = "lock"
    /\ CanLock(locker[ms[t]])
    /\ mutexes' = [mutexes EXCEPT ![locker[ms[t]]] = TRUE]
    /\ pc' = [pc EXCEPT ![t] = "next"]
    /\ UNCHANGED <<locker, queue, ms, writer, merge, err, pulled, executed>>
    /\ UNCHANGED notMergeVars

\* a loop without its post statement: the merge is fetched once, before the
\* loop, and never replaced
NextMergeOnlyOnce(t) ==
    /\ pc[t] = "next"
    /\ LET w == writer[t]
           first == executed[t] = <<>>
           m == IF first THEN nextMerge(queue[w]) ELSE merge[t]
       IN /\ queue' = [queue EXCEPT ![w] =
                          IF first THEN nextMergeQueue(queue[w]) ELSE @]
          /\ merge' = [merge EXCEPT ![t] = m]
          /\ pulled' = [pulled EXCEPT ![t] =
                           IF first /\ m # NoMerge THEN Append(@, m) ELSE @]
          /\ pc' = [pc EXCEPT ![t] =
                       IF LoopCond(m, err[t]) THEN "merge" ELSE "exit"]
    /\ UNCHANGED <<mutexes, locker, ms, writer, err, executed>>
    /\ UNCHANGED notMergeVars

\* merge = writer.nextMerge(), followed by the test of the loop condition
NextMerge(t) ==
    /\ pc[t] = "next"
    /\ LET w == writer[t]
           m == nextMerge(queue[w])
       IN /\ queue' = [queue EXCEPT ![w] = nextMergeQueue(queue[w])]
          /\ merge' = [merge EXCEPT ![t] = m]
          /\ pulled' = [pulled EXCEPT ![t] =
                           IF m = NoMerge THEN @ ELSE Append(@, m)]
          /\ pc' = [pc EXCEPT ![t] =
                       IF LoopCond(m, err[t]) THEN "merge" ELSE "exit"]
    /\ UNCHANGED <<mutexes, locker, ms, writer, err, executed>>
    /\ UNCHANGED notMergeVars

\* err = writer.merge(merge)
DoMerge(t) ==
    /\ pc[t] = "merge"
    /\ \E r \in mergeResults(writer[t], merge[t]) :
          /\ err' = [err EXCEPT ![t] = r]
          /\ executed' = [executed EXCEPT ![t] = Append(@, <<merge[t], r>>)]
    /\ pc' = [pc EXCEPT ![t] = "next"]
    /\ UNCHANGED <<mutexes, locker, queue, ms, writer, merge, pulled>>
    /\ UNCHANGED notMergeVars

\* a return whose Unlock is not deferred: the lock is released at the end of
\* the function only, and a return on an error skips it
ReturnUnlockingOnSuccess(t) ==
    /\ pc[t] = "exit"
    /\ mutexes' = [mutexes EXCEPT ![locker[ms[t]]] = (err[t] # Nil)]
    /\ pc' = [pc EXCEPT ![t] = "idle"]
    /\ ms' = [ms EXCEPT ![t] = 1]
    /\ writer' = [writer EXCEPT ![t] = 1]
    /\ merge' = [merge EXCEPT ![t] = NoMerge]
    /\ err' = [err EXCEPT ![t] = Nil]
    /\ pulled' = [pulled EXCEPT ![t] = <<>>]
    /\ executed' = [executed EXCEPT ![t] = <<>>]
    /\ UNCHANGED <<locker, queue>>
    /\ UNCHANGED notMergeVars

\* return err, running the deferred ms.Unlock(); the call's locals are gone
Return(t) ==
    /\ pc[t] = "exit"
    /\ mutexes' = [mutexes EXCEPT ![locker[ms[t]]] = FALSE]
    /\ pc' = [pc EXCEPT ![t] = "idle"]
    /\ ms' = [ms EXCEPT ![t] = 1]
    /\ writer' = [writer EXCEPT ![t] = 1]
    /\ merge' = [merge EXCEPT ![t] = NoMerge]
    /\ err' = [err EXCEPT ![t] = Nil]
    /\ pulled' = [pulled EXCEPT ![t] = <<>>]
    /\ executed' = [executed EXCEPT ![t] = <<>>]
    /\ UNCHANGED <<locker, queue>>
    /\ UNCHANGED notMergeVars

\* the queue [1, ..., n]
QueueOf(n) == [i \in 1..n |-> i]
\* the merge queues a writer starts with
Queues == {QueueOf(n) : n \in 0..MaxMerges}

\* one scheduler from NewSerialMergeScheduler(), one writer whose pending
\* merges are one of qs, and no Merge call yet
InitMerge(qs) ==
    /\ mutexes = <<FALSE>>
    /\ locker = <<1>>
    /\ queue \in {<<q>> : q \in qs}
    /\ pc = [t \in Threads |-> "idle"]
    /\ ms = [t \in Threads |-> 1]
    /\ writer = [t \in Threads |-> 1]
    /\ merge = [t \in Threads |-> NoMerge]
    /\ err = [t \in Threads |-> Nil]
    /\ pulled = [t \in Threads |-> <<>>]
    /\ executed = [t \in Threads |-> <<>>]

Next ==
    \/ \E s \in 1..Len(locker), q \in Queues : Clone(s, q)
    \/ \E t \in Threads, s \in 1..Len(locker) : CallMerge(t, s, s)
    \/ \E t \in Threads : Lock(t)
    \/ \E t \in Threads : NextMerge(t)
    \/ \E t \in Threads : DoMerge(t)
    \/ \E t \in Threads : Return(t)

(***************************************************************************)
(* KeepOnlyLastCommitDeletionPolicy                                        *)
(***************************************************************************)
\* the number of times c occurs in the sequence q
Count(c, q) == Cardinality({i \in 1..Len(q) : q[i] = c})

\* the elements of a set of commit generations, oldest (smallest) first
RECURSIVE OldestFirst(_)
OldestFirst(S) ==
    IF S = {} THEN <<>>
    ELSE LET c == CHOOSE x \in S : \A y \in S : x <= y
         IN <<c>> \o OldestFirst(S \ {c})

\* the commit lists a writer can hand to the policy
CommitLists == {OldestFirst(S) : S \in SUBSET (1..NumCommits)}

\* for i, limit := 0, len(commits); i < limit-1; i++ { commits[i].Delete() }
\* calls: the Delete() calls made so far
RECURSIVE DeleteLoop(_, _, _, _)
DeleteLoop(cs, i, limit, calls) ==
    IF i < limit - 1
    THEN DeleteLoop(cs, i + 1, limit, Append(calls, cs[i + 1]))
    ELSE calls

\* the loop running to the end of the list: i < limit
RECURSIVE DeleteLoopToEnd(_, _, _, _)
DeleteLoopToEnd(cs, i, limit, calls) ==
    IF i < limit
    THEN DeleteLoopToEnd(cs, i + 1, limit, Append(calls, cs[i + 1]))
    ELSE calls

\* onCommit that does not spare the last commit
onCommitToEnd(cs) ==
    [calls |-> DeleteLoopToEnd(cs, 0, Len(cs), <<>>), err |-> Nil]
\* p.onCommit(commits): the Delete() calls it makes and the error it returns
onCommit(cs) ==
    [calls |-> DeleteLoop(cs, 0, Len(cs), <<>>), err |-> Nil]

\* p.onInit(commits): return p.onCommit(commits)
onInit(cs) == onCommit(cs)

\* the writer calls p.onCommit(cs)
OnCommit(cs) ==
    /\ commits' = cs
    /\ deleteCalls' = onCommit(cs).calls
    /\ policyErr' = onCommit(cs).err
    /\ policyOp' = "onCommit"
    /\ UNCHANGED notPolicyVars

\* the writer calls p.onInit(cs)
OnInit(cs) ==
    /\ commits' = cs
    /\ deleteCalls' = onInit(cs).calls
    /\ policyErr' = onInit(cs).err
    /\ policyOp' = "onInit"
    /\ UNCHANGED notPolicyVars

\* no policy hook called yet
PolicyIdle ==
    /\ commits = <<>>
    /\ deleteCalls = <<>>
    /\ policyOp = "none"
    /\ policyErr = Nil

PolicyNext ==
    \/ \E cs \in CommitLists : OnInit(cs)
    \/ \E cs \in CommitLists : OnCommit(cs)

(***************************************************************************)
(* LockImpl.ObtainWithin                                                   *)
(***************************************************************************)
LOCK_POOL_INTERVAL == 1000
LOCK_OBTAIN_WAIT_FOREVER == -1

\* Go's int64 division, which truncates toward zero (b > 0)
GoDiv(a, b) == IF a >= 0 THEN a \div b ELSE -((-a) \div b)

\* the timeouts the callers pass: around every half interval up to the bound,
\* the wait-forever sentinel, and invalid (negative) ones
HalfInterval == LOCK_POOL_INTERVAL \div 2
Timeouts ==
    {t \in {k * HalfInterval + d : k \in 0..MaxTimeoutSteps, d \in {-1, 0, 1}} : t >= 0}
        \cup {LOCK_OBTAIN_WAIT_FOREVER, LOCK_OBTAIN_WAIT_FOREVER - 1, -LOCK_POOL_INTERVAL}

\* the error an Obtain() call can return
ObtainError == <<"obtain failed">>
\* the root causes an Obtain() call can leave in failureReason
Reasons == {<<"reason", 1>>, <<"reason", 2>>}
\* what one lock.self.Obtain() call can do: return (ok, err), and set
\* failureReason to a root cause (sets = Nil: it leaves failureReason alone)
ObtainOutcomes == [ok : BOOLEAN, err : {Nil, ObtainError}, sets : {Nil} \cup Reasons]
\* failureReason after an Obtain() call with outcome o
AfterObtain(fr, o) == IF o.sets # Nil THEN o.sets ELSE fr

\* lock.failureReason = nil
ResetFailureReason(fr) == Nil

\* the condition checked by assert2, which panics when it is false
ValidTimeout(T) == T >= 0 \/ T = LOCK_OBTAIN_WAIT_FOREVER

\* giving up one poll late
TimedOutOneLate(T, sc, max) == T # LOCK_OBTAIN_WAIT_FOREVER /\ sc > max
\* giving up without regard for the wait-forever sentinel
TimedOutEvenForever(T, sc, max) == sc >= max
\* lockWaitTimeout != LOCK_OBTAIN_WAIT_FOREVER && sleepCount >= maxSleepCount
TimedOut(T, sc, max) == T # LOCK_OBTAIN_WAIT_FOREVER /\ sc >= max

\* a timeout error that leaves the failure reason out
TimeoutErrorWithoutCause(fr) == <<"Lock obtain time out">>
\* errors.New("Lock obtain time out: <lock>"), followed by ": <failureReason>"
\* when failureReason is not nil
TimeoutError(fr) ==
    IF fr # Nil THEN <<"Lock obtain time out", fr>> ELSE <<"Lock obtain time out">>

\* e is a timeout error of ObtainWithin
IsTimeout(e) == e # Nil /\ e[1] = "Lock obtain time out"

\* lock.ObtainWithin(T) up to the polling loop: the first Obtain() has outcome o
ObtainWithin(T, o) ==
    /\ lockPc \in {"idle", "returned", "panicked"}
    /\ lockWaitTimeout' = T
    /\ failureReason' = AfterObtain(ResetFailureReason(failureReason), o)
    /\ locked' = o.ok
    /\ lockErr' = o.err
    /\ attempts' = 1
    /\ slept' = 0
    /\ recorded' = o.sets
    /\ onlyFailed' = (~o.ok /\ o.err = Nil)
    /\ firstSuccess' = IF o.ok /\ o.err = Nil THEN 1 ELSE 0
    /\ sleepCount' = 0
    /\ IF o.err # Nil
       THEN lockPc' = "returned" /\ maxSleepCount' = 0
       ELSE IF ~ValidTimeout(T)
       THEN lockPc' = "panicked" /\ maxSleepCount' = 0
       ELSE lockPc' = "loop" /\ maxSleepCount' = GoDiv(T, LOCK_POOL_INTERVAL)
    /\ UNCHANGED notLockVars

\* the loop condition !locked is false: return locked, err
LoopExit ==
    /\ lockPc = "loop"
    /\ locked
    /\ lockPc' = "returned"
    /\ UNCHANGED <<lockWaitTimeout, locked, lockErr, failureReason, sleepCount,
                   maxSleepCount, attempts, slept, recorded, onlyFailed, firstSuccess>>
    /\ UNCHANGED notLockVars

\* the loop body gives up: err = errors.New(reason); return
GiveUp ==
    /\ lockPc = "loop"
    /\ ~locked
    /\ TimedOut(lockWaitTimeout, sleepCount, maxSleepCount)
    /\ lockErr' = TimeoutError(failureReason)
    /\ lockPc' = "returned"
    /\ UNCHANGED <<lockWaitTimeout, locked, failureReason, sleepCount,
                   maxSleepCount, attempts, slept, recorded, onlyFailed, firstSuccess>>
    /\ UNCHANGED notLockVars

\* sleepCount++; time.Sleep(LOCK_POOL_INTERVAL * time.Millisecond): the
\* goroutine is parked, the lock's holder and everything else runs on
Sleep ==
    /\ lockPc = "loop"
    /\ ~locked
    /\ ~TimedOut(lockWaitTimeout, sleepCount, maxSleepCount)
    /\ attempts < MaxAttempts
    /\ sleepCount' = sleepCount + 1
    /\ lockPc' = "sleeping"
    /\ UNCHANGED <<lockWaitTimeout, locked, lockErr, failureReason, maxSleepCount,
                   attempts, slept, recorded, onlyFailed, firstSuccess>>
    /\ UNCHANGED notLockVars

\* the sleep is over; the post statement: locked, err = lock.self.Obtain()
WakeAndObtain(o) ==
    /\ lockPc = "sleeping"
    /\ lockPc' = "loop"
    /\ slept' = slept + LOCK_POOL_INTERVAL
    /\ locked' = o.ok
    /\ lockErr' = o.err
    /\ failureReason' = AfterObtain(failureReason, o)
    /\ attempts' = attempts + 1
    /\ recorded' = AfterObtain(recorded, o)
    /\ onlyFailed' = (onlyFailed /\ ~o.ok /\ o.err = Nil)
    /\ firstSuccess' = IF firstSuccess = 0 /\ o.ok /\ o.err = Nil
                        THEN attempts + 1 ELSE firstSuccess
    /\ UNCHANGED <<lockWaitTimeout, sleepCount, maxSleepCount>>
    /\ UNCHANGED notLockVars

\* a lock on which ObtainWithin has not been called
LockIdle ==
    /\ lockPc = "idle"
    /\ lockWaitTimeout = 0
    /\ locked = FALSE
    /\ lockErr = Nil
    /\ failureReason = Nil
    /\ sleepCount = 0
    /\ maxSleepCount = 0
    /\ attempts = 0
    /\ slept = 0
    /\ recorded = Nil
    /\ onlyFailed = TRUE
    /\ firstSuccess = 0

LockNext ==
    \/ \E T \in Timeouts, o \in ObtainOutcomes : ObtainWithin(T, o)
    \/ LoopExit
    \/ GiveUp
    \/ Sleep
    \/ \E o \in ObtainOutcomes : WakeAndObtain(o)

(***************************************************************************)
(* A writer that tracks its commits and consults the deletion policy: it   *)
(* hands the policy the commits it tracks, oldest first, and forgets the   *)
(* commits the policy deleted before the next call.                        *)
(***************************************************************************)
\* the commits of cs that no Delete() call in calls named
Remaining(cs, calls) == SelectSeq(cs, LAMBDA c : Count(c, calls) = 0)

\* a writer is opened on an index holding the commits cs: p.onInit(cs)
TrackOnInit(cs) ==
    /\ trackPc = "new"
    /\ trackPc' = "open"
    /\ commits' = cs
    /\ deleteCalls' = onInit(cs).calls
    /\ policyErr' = onInit(cs).err
    /\ policyOp' = "onInit"
    /\ tracked' = Remaining(cs, onInit(cs).calls)
    /\ generation' = IF cs = <<>> THEN 0 ELSE cs[Len(cs)]
    /\ UNCHANGED notTrackVars

\* the writer commits: the new commit joins the tracked ones, p.onCommit(list)
TrackCommit ==
    /\ trackPc = "open"
    /\ generation < NumCommits + MaxWriterCommits
    /\ LET list == Append(tracked, generation + 1)
       IN /\ commits' = list
          /\ deleteCalls' = onCommit(list).calls
          /\ policyErr' = onCommit(list).err
          /\ tracked' = Remaining(list, onCommit(list).calls)
    /\ policyOp' = "onCommit"
    /\ generation' = generation + 1
    /\ UNCHANGED trackPc
    /\ UNCHANGED notTrackVars

\* the writer is closed and another one opened on what it left: p.onInit(tracked)
TrackReopen ==
    /\ trackPc = "open"
    /\ policyOp = "onCommit"
    /\ commits' = tracked
    /\ deleteCalls' = onInit(tracked).calls
    /\ policyErr' = onInit(tracked).err
    /\ policyOp' = "onInit"
    /\ tracked' = Remaining(tracked, onInit(tracked).calls)
    /\ UNCHANGED <<trackPc, generation>>
    /\ UNCHANGED notTrackVars

\* no writer opened yet
TrackIdle ==
    /\ trackPc = "new"
    /\ tracked = <<>>
    /\ generation = 0

TrackNext ==
    \/ \E cs \in CommitLists : TrackOnInit(cs)
    \/ TrackCommit
    \/ TrackReopen

(***************************************************************************)
(* BytesStore (index/bytes.go): a DataOutput over fixed-size blocks, and   *)
(* the forward readers over what was written.  Go's 0-based indices are    *)
(* kept in the fields; a block index and a byte index are shifted by one   *)
(* where a TLA+ sequence is accessed.                                      *)
(***************************************************************************)
Bytes == 0..MaxByte

\* the buffers a caller hands to WriteBytes
Buffers == UNION {[1..n -> Bytes] : n \in 0..MaxBytes}

\* the buffers a caller hands to ReadBytes to be filled: of any length, holding
\* zeros (fresh from make) or some other byte throughout
ReadBuffers == {[i \in 1..n |-> f] : n \in 0..MaxBytes, f \in Bytes}

\* make([]byte, n)
MakeBytes(n) == [i \in 1..n |-> 0]

\* copy(dst[at:], src): min(len(dst)-at, len(src)) bytes of src, into dst at at
CopyInto(dst, at, src) ==
    [i \in 1..Len(dst) |->
        IF i > at /\ i - at <= Len(src) THEN src[i - at] ELSE dst[i]]

\* newBytesStore(blockBits)
newBytesStore(bits) ==
    [blockBits |-> bits,
     blockSize |-> 2 ^ bits,
     blockMask |-> 2 ^ bits - 1,
     blocks    |-> <<>>,
     current   |-> 0,
     nextWrite |-> 2 ^ bits,
     panicked  |-> FALSE]

\* a new block that leaves nextWrite where it was
AllocateBlockKeepingNextWrite(st) ==
    [st EXCEPT !.blocks = Append(@, MakeBytes(st.blockSize)),
               !.current = Len(st.blocks) + 1]
\* current = make([]byte, blockSize); blocks = append(blocks, current); nextWrite = 0
AllocateBlock(st) ==
    [st EXCEPT !.blocks = Append(@, MakeBytes(st.blockSize)),
               !.current = Len(st.blocks) + 1,
               !.nextWrite = 0]

\* WriteByte(b)
WriteByte(st, b) ==
    LET a == IF st.nextWrite = st.blockSize THEN AllocateBlock(st) ELSE st
    IN  IF a.current = 0 \/ a.nextWrite >= a.blockSize
        THEN [a EXCEPT !.panicked = TRUE]
        ELSE [a EXCEPT !.blocks[a.current][a.nextWrite + 1] = b,
                       !.nextWrite = @ + 1]

\* the test with <: a buffer that ends on the block boundary does not fit
FitsStrictly(length, chunk) == length < chunk
\* if length <= chunk
Fits(length, chunk) == length <= chunk

\* copy(self.current[self.nextWrite:], src)
CopyToCurrent(st, src) ==
    LET len == IF st.current = 0 THEN 0 ELSE Len(st.blocks[st.current])
    IN  IF st.nextWrite > len THEN [st EXCEPT !.panicked = TRUE]
        ELSE IF st.current = 0 THEN st
        ELSE [st EXCEPT !.blocks[st.current] = CopyInto(@, st.nextWrite, src)]

\* the loop of WriteBytes: for length > 0 { ... }
RECURSIVE WriteBytesLoop(_, _, _, _)
WriteBytesLoop(st, buf, offset, length) ==
    IF length > 0 /\ ~st.panicked
    THEN LET chunk == st.blockSize - st.nextWrite
         IN  IF Fits(length, chunk)
             THEN LET a == CopyToCurrent(st, SubSeq(buf, offset + 1, offset + length))
                  IN  [a EXCEPT !.nextWrite = @ + length]
             ELSE IF chunk > 0
             THEN WriteBytesLoop(
                      AllocateBlock(CopyToCurrent(st, SubSeq(buf, offset + 1, offset + chunk))),
                      buf, offset + chunk, length - chunk)
             ELSE WriteBytesLoop(AllocateBlock(st), buf, offset, length)
    ELSE st

\* WriteBytes(buf)
WriteBytes(st, buf) == WriteBytesLoop(st, buf, 0, Len(buf))

\* WriteByte called for each byte of buf in turn
RECURSIVE WriteEachByte(_, _)
WriteEachByte(st, buf) ==
    IF buf = <<>> THEN st
    ELSE WriteEachByte(WriteByte(st, Head(buf)), Tail(buf))

\* no reader yet
NoReader ==
    [kind |-> "none", bytes |-> <<>>, block |-> 0, pos |-> 0,
     current |-> 0, nextBuffer |-> 0, nextRead |-> 0, panicked |-> FALSE]

\* newForwardBytesReader(bytes): the argument stays in the closures' variable
\* bytes (block: the block it aliases); the struct's field bytes is never set
newForwardBytesReader(b) ==
    [NoReader EXCEPT !.kind = "single", !.bytes = <<>>, !.block = b, !.pos = 0]

\* bs.forwardReader()
forwardReader(st) ==
    IF Len(st.blocks) = 1
    THEN newForwardBytesReader(1)
    ELSE [NoReader EXCEPT !.kind = "multi", !.nextRead = st.blockSize]

\* ForwardBytesReader.ReadByte: self.pos++; return self.bytes[self.pos-1]
\* rd, st: the reader and the store after the call; out: the bytes returned
ForwardReadByte(rd, st) ==
    LET pos == rd.pos + 1
    IN  IF pos - 1 < Len(rd.bytes)
        THEN [rd |-> [rd EXCEPT !.pos = pos], st |-> st, out |-> <<rd.bytes[pos]>>]
        ELSE [rd |-> [rd EXCEPT !.pos = pos, !.panicked = TRUE], st |-> st, out |-> <<>>]

\* ForwardBytesReader.ReadBytes: copy(bytes[self.pos:], buf); self.pos += len(buf)
ForwardReadBytes(rd, st, buf) ==
    IF rd.pos > Len(st.blocks[rd.block])
    THEN [rd |-> [rd EXCEPT !.panicked = TRUE], st |-> st, out |-> <<>>]
    ELSE [rd |-> [rd EXCEPT !.pos = @ + Len(buf)],
          st |-> [st EXCEPT !.blocks[rd.block] = CopyInto(@, rd.pos, buf)],
          out |-> buf]

\* current = bs.blocks[nextBuffer]; nextBuffer++; nextRead = 0
NextBlock(rd, st) ==
    IF rd.nextBuffer >= Len(st.blocks)
    THEN [rd EXCEPT !.panicked = TRUE]
    ELSE [rd EXCEPT !.current = rd.nextBuffer + 1,
                    !.nextBuffer = @ + 1,
                    !.nextRead = 0]

\* ByteStoreForwardReader.ReadByte
StoreReadByte(rd, st) ==
    LET a == IF rd.nextRead = st.blockSize THEN NextBlock(rd, st) ELSE rd
    IN  IF a.panicked \/ a.current = 0 \/ a.nextRead >= st.blockSize
        THEN [rd |-> [a EXCEPT !.panicked = TRUE], st |-> st, out |-> <<>>]
        ELSE [rd |-> [a EXCEPT !.nextRead = @ + 1], st |-> st,
              out |-> <<st.blocks[a.current][a.nextRead + 1]>>]

\* self.current[from:from+n]
CurrentSlice(rd, st, from, n) == SubSeq(st.blocks[rd.current], from + 1, from + n)

\* the loop of ByteStoreForwardReader.ReadBytes: rd, and buf as filled so far
RECURSIVE StoreReadBytesLoop(_, _, _, _, _)
StoreReadBytesLoop(rd, st, buf, offset, length) ==
    IF length > 0 /\ ~rd.panicked
    THEN LET chunkLeft == st.blockSize - rd.nextRead
         IN  IF chunkLeft > 0 /\ rd.current = 0
             THEN [rd |-> [rd EXCEPT !.panicked = TRUE], buf |-> buf]
             ELSE IF length <= chunkLeft
             THEN [rd  |-> [rd EXCEPT !.nextRead = @ + length],
                   buf |-> CopyInto(buf, offset,
                                    CurrentSlice(rd, st, rd.nextRead, length))]
             ELSE IF chunkLeft > 0
             THEN StoreReadBytesLoop(
                      NextBlock(rd, st), st,
                      CopyInto(buf, offset, CurrentSlice(rd, st, rd.nextRead, chunkLeft)),
                      offset + chunkLeft, length - chunkLeft)
             ELSE StoreReadBytesLoop(NextBlock(rd, st), st, buf, offset, length)
    ELSE [rd |-> rd, buf |-> buf]

\* ByteStoreForwardReader.ReadBytes
StoreReadBytes(rd, st, buf) ==
    LET r == StoreReadBytesLoop(rd, st, buf, 0, Len(buf))
    IN  [rd |-> r.rd, st |-> st, out |-> IF r.rd.panicked THEN <<>> ELSE r.buf]

\* the reader's ReadByte, whichever reader forwardReader returned
ReadByte(rd, st) ==
    IF rd.kind = "single" THEN ForwardReadByte(rd, st) ELSE StoreReadByte(rd, st)

\* the reader's ReadBytes, whichever reader forwardReader returned
ReadBytes(rd, st, buf) ==
    IF rd.kind = "single" THEN ForwardReadBytes(rd, st, buf)
    ELSE StoreReadBytes(rd, st, buf)

\* the bytes the store's blocks hold, allocated whether written or not
Allocated(st) == Len(st.blocks) * st.blockSize

\* the nextBuffer that reads nextBuffer * blockSize as the position
getPositionFromNextBuffer(rd, st) == rd.nextBuffer * st.blockSize + rd.nextRead
\* ByteStoreForwardReader.getPosition:
\* (int64(nextBuffer)-1)*int64(blockSize) + int64(nextRead)
getPosition(rd, st) == (rd.nextBuffer - 1) * st.blockSize + rd.nextRead

\* ByteStoreForwardReader.setPosition(pos): pos >> blockBits rounds down, and
\* uint32(pos) & blockMask is the remainder modulo blockMask + 1 (the
\* positions of the model are far below 2^32, where the conversions to uint32
\* change nothing); nextBuffer is assigned before bs.blocks[bufferIndex] can
\* panic
setPosition(rd, st, pos) ==
    LET bufferIndex == pos \div (2 ^ st.blockBits)
        a == [rd EXCEPT !.nextBuffer = bufferIndex + 1]
    IN  IF bufferIndex < 0 \/ bufferIndex >= Len(st.blocks)
        THEN [a EXCEPT !.panicked = TRUE]
        ELSE [a EXCEPT !.current = bufferIndex + 1,
                       !.nextRead = pos % (st.blockMask + 1)]

\* ByteStoreForwardReader.skipBytes(count)
skipBytes(rd, st, count) == setPosition(rd, st, getPosition(rd, st) + count)

\* ForwardBytesReader.getPosition: return int64(self.pos)
ForwardGetPosition(rd) == rd.pos

\* ForwardBytesReader.setPosition(pos): self.pos = int32(pos) (the positions
\* of the model are far below 2^31, where the conversion changes nothing)
ForwardSetPosition(rd, pos) == [rd EXCEPT !.pos = pos]

\* ForwardBytesReader.skipBytes(count): self.pos += count
ForwardSkipBytes(rd, count) == [rd EXCEPT !.pos = @ + count]

\* the reader's getPosition(), whichever reader forwardReader returned
Position(rd, st) ==
    IF rd.kind = "multi" THEN getPosition(rd, st) ELSE ForwardGetPosition(rd)

\* the reader's setPosition(pos), whichever reader forwardReader returned
SetPositionOf(rd, st, pos) ==
    IF rd.kind = "single" THEN ForwardSetPosition(rd, pos) ELSE setPosition(rd, st, pos)

\* the reader's skipBytes(count), whichever reader forwardReader returned
SkipBytesOf(rd, st, count) ==
    IF rd.kind = "single" THEN ForwardSkipBytes(rd, count) ELSE skipBytes(rd, st, count)

\* the caller writes one byte
CallWriteByte(b) ==
    /\ reader.kind = "none"
    /\ ~store.panicked
    /\ Len(written) < MaxBytes
    /\ prevStore' = store
    /\ store' = WriteByte(store, b)
    /\ written' = Append(written, b)
    /\ lastOp' = "WriteByte"
    /\ lastBuf' = <<b>>
    /\ UNCHANGED <<reader, readLog, expectedPos, prevPos, lastArg>>
    /\ UNCHANGED notBytesVars

\* the caller writes a buffer
CallWriteBytes(buf) ==
    /\ reader.kind = "none"
    /\ ~store.panicked
    /\ Len(written) + Len(buf) <= MaxBytes
    /\ prevStore' = store
    /\ store' = WriteBytes(store, buf)
    /\ written' = written \o buf
    /\ lastOp' = "WriteBytes"
    /\ lastBuf' = buf
    /\ UNCHANGED <<reader, readLog, expectedPos, prevPos, lastArg>>
    /\ UNCHANGED notBytesVars

\* the caller asks for a forward reader over what was written
CallForwardReader ==
    /\ reader.kind = "none"
    /\ ~store.panicked
    /\ reader' = forwardReader(store)
    /\ lastOp' = "forwardReader"
    /\ expectedPos' = 0
    /\ prevPos' = 0
    /\ lastArg' = 0
    /\ UNCHANGED <<store, prevStore, written, lastBuf, readLog>>
    /\ UNCHANGED notBytesVars

\* the caller reads one of the bytes written
CallReadByte ==
    /\ reader.kind # "none"
    /\ ~reader.panicked
    /\ Len(readLog) < Len(written)
    /\ expectedPos + 1 <= Allocated(store)
    /\ LET r == ReadByte(reader, store)
       IN  /\ reader' = r.rd
           /\ store' = r.st
           /\ readLog' = readLog \o r.out
    /\ lastOp' = "ReadByte"
    /\ expectedPos' = expectedPos + 1
    /\ UNCHANGED <<prevStore, written, lastBuf, prevPos, lastArg>>
    /\ UNCHANGED notBytesVars

\* the caller reads some of the bytes written into its buffer buf
CallReadBytes(buf) ==
    /\ reader.kind # "none"
    /\ ~reader.panicked
    /\ Len(readLog) + Len(buf) <= Len(written)
    /\ expectedPos + Len(buf) <= Allocated(store)
    /\ LET r == ReadBytes(reader, store, buf)
       IN  /\ reader' = r.rd
           /\ store' = r.st
           /\ readLog' = readLog \o r.out
    /\ lastOp' = "ReadBytes"
    /\ expectedPos' = expectedPos + Len(buf)
    /\ UNCHANGED <<prevStore, written, lastBuf, prevPos, lastArg>>
    /\ UNCHANGED notBytesVars

\* the caller moves the reader to a position inside the blocks
CallSetPosition(pos) ==
    /\ reader.kind # "none"
    /\ ~reader.panicked
    /\ pos >= 0 /\ pos < Allocated(store)
    /\ reader' = SetPositionOf(reader, store, pos)
    /\ lastOp' = "setPosition"
    /\ expectedPos' = pos
    /\ prevPos' = Position(reader, store)
    /\ lastArg' = pos
    /\ UNCHANGED <<store, prevStore, written, lastBuf, readLog>>
    /\ UNCHANGED notBytesVars

\* the caller skips count bytes, forward or backward, staying inside the blocks
CallSkipBytes(count) ==
    /\ reader.kind # "none"
    /\ ~reader.panicked
    /\ expectedPos + count >= 0 /\ expectedPos + count < Allocated(store)
    /\ reader' = SkipBytesOf(reader, store, count)
    /\ lastOp' = "skipBytes"
    /\ expectedPos' = expectedPos + count
    /\ prevPos' = Position(reader, store)
    /\ lastArg' = count
    /\ UNCHANGED <<store, prevStore, written, lastBuf, readLog>>
    /\ UNCHANGED notBytesVars

\* a store just made by newBytesStore(bits)
BytesNew(bits) ==
    /\ store = newBytesStore(bits)
    /\ prevStore = newBytesStore(bits)
    /\ written = <<>>
    /\ lastOp = "new"
    /\ lastBuf = <<>>
    /\ reader = NoReader
    /\ readLog = <<>>
    /\ expectedPos = 0
    /\ prevPos = 0
    /\ lastArg = 0

BytesIdle == BytesNew(0)

BytesNext ==
    \/ \E b \in Bytes : CallWriteByte(b)
    \/ \E buf \in Buffers : CallWriteBytes(buf)
    \/ CallForwardReader
    \/ CallReadByte
    \/ \E buf \in ReadBuffers : CallReadBytes(buf)

(***************************************************************************)
(* IndexFileDeleter: a struct without fields whose checkpoint panics.      *)
(***************************************************************************)
Files == 1..NumFiles

\* the SegmentInfos a writer can pass to checkpoint, as the files they name
SegmentInfosFiles == SUBSET Files

\* the reference count the deleter holds for file f: the struct has no field,
\* nothing is ever counted
RefCount(f) == 0

\* the live generations and retained commits naming f after the calls made:
\* the in-memory generation of the last checkpoint, and every commit (no
\* policy was consulted, so none was removed)
LiveCount(f) ==
    LET n == Len(checkpoints)
    IN  (IF n > 0 /\ f \in checkpoints[n][1] THEN 1 ELSE 0)
        + Cardinality({i \in 1..n : checkpoints[i][2] /\ f \in checkpoints[i][1]})

\* del.checkpoint(segmentInfos, isCommit): panic("not implemented yet")
Checkpoint(files, isCommit) ==
    /\ Len(checkpoints) < MaxCheckpoints
    /\ checkpoints' = Append(checkpoints, <<files, isCommit>>)
    /\ delPanicked' = TRUE
    /\ UNCHANGED notDeleterVars

\* a deleter on which checkpoint was not called
DeleterIdle ==
    /\ checkpoints = <<>>
    /\ delPanicked = FALSE

DeleterNext ==
    \E files \in SegmentInfosFiles, isCommit \in BOOLEAN : Checkpoint(files, isCommit)

(***************************************************************************)
(* ConcurrentMergeScheduler: a struct holding only its lock; its methods   *)
(* panic.                                                                  *)
(***************************************************************************)
MergeSizes == {1, 10}

\* the pending merges a writer can hold, by size
PendingMerges == UNION {[1..n -> MergeSizes] : n \in 0..MaxPending}

\* cms.SetMaxMergesAndRoutines(maxMergeCount, maxRoutineCount):
\* panic("not implemented yet"); nothing is stored
SetMaxMergesAndRoutines(maxMergeCount, maxRoutineCount) ==
    /\ cmsPc = "idle"
    /\ requested' = <<maxMergeCount, maxRoutineCount>>
    /\ cmsLast' = "SetMaxMergesAndRoutines"
    /\ cmsPanicked' = TRUE
    /\ UNCHANGED <<cmsMutex, cmsPc, pending, admitted>>
    /\ UNCHANGED notCmsVars

\* cms.Merge(writer): cms.Lock(); defer cms.Unlock()
CmsMergeLock ==
    /\ cmsPc = "idle"
    /\ ~cmsMutex
    /\ cmsMutex' = TRUE
    /\ cmsPc' = "locked"
    /\ cmsLast' = "Merge"
    /\ cmsPanicked' = FALSE
    /\ UNCHANGED <<requested, pending, admitted>>
    /\ UNCHANGED notCmsVars

\* cms.Merge(writer): panic("not implemented yet"), then the deferred Unlock;
\* no merge is taken from the writer, none is started
CmsMergePanic ==
    /\ cmsPc = "locked"
    /\ cmsPanicked' = TRUE
    /\ cmsMutex' = FALSE
    /\ cmsPc' = "idle"
    /\ UNCHANGED <<cmsLast, requested, pending, admitted>>
    /\ UNCHANGED notCmsVars

\* NewConcurrentMergeScheduler(), and a writer holding the pending merges p
CmsNew(p) ==
    /\ cmsMutex = FALSE
    /\ cmsPc = "idle"
    /\ cmsLast = "none"
    /\ cmsPanicked = FALSE
    /\ requested = Nil
    /\ pending = p
    /\ admitted = <<>>

CmsIdle == CmsNew(<<>>)

CmsNext ==
    \/ \E mm \in 1..MaxMergeCount, mr \in 1..MaxMergeCount :
          mr <= mm /\ SetMaxMergesAndRoutines(mm, mr)
    \/ CmsMergeLock
    \/ CmsMergePanic

\* buffers whose bytes differ from one offset to the next, one of each length
PatternBuffers == {[i \in 1..n |-> i % (MaxByte + 1)] : n \in 0..MaxBytes}

\* the buffers a caller has just made to be filled by ReadBytes
FreshBuffers == {MakeBytes(n) : n \in 0..MaxBytes}

\* a store that one WriteBytes(buf) call has filled
BytesWritten(bits, buf) ==
    /\ store = WriteBytes(newBytesStore(bits), buf)
    /\ prevStore = newBytesStore(bits)
    /\ written = buf
    /\ lastOp = "WriteBytes"
    /\ lastBuf = buf
    /\ reader = NoReader
    /\ readLog = <<>>
    /\ expectedPos = 0
    /\ prevPos = 0
    /\ lastArg = 0

\* reading a written store forward, moving the reader about
ReaderNext ==
    \/ CallForwardReader
    \/ CallReadByte
    \/ \E buf \in FreshBuffers : CallReadBytes(buf)
    \/ \E pos \in 0..MaxBytes : CallSetPosition(pos)
    \/ \E count \in (0 - MaxBytes)..MaxBytes : CallSkipBytes(count)

(***************************************************************************)
(* SlicedIndexInput: a window [fileOffset, fileOffset+length) of a base    *)
(* IndexInput.  Slices of one slicer share the base, so a call finds the   *)
(* base wherever the call before it left it.                               *)
(***************************************************************************)
\* the base file: the byte at offset p is p itself
BaseByte(p) == p

\* errors.New("read past EOF: ...") of readInternal
ReadPastEOF == <<"read past EOF">>
\* the error of the base input asked for bytes beyond its end
BaseEOF == <<"base: read past EOF">>

\* base.Seek(pos): the base is left at pos
Seek(pos) == pos

\* base.ReadBytesBuffered(buf, false) at position pos with n == len(buf):
\* the bytes from pos on, or an error when they go beyond the base's end
ReadBytesBuffered(pos, n) ==
    IF pos + n > BaseLength
    THEN [err |-> BaseEOF, out |-> <<>>, pos |-> pos]
    ELSE [err |-> Nil, out |-> [i \in 1..n |-> BaseByte(pos + i - 1)], pos |-> pos + n]

\* the test that looks at the file pointer alone
PastEOFIgnoringLen(start, n, length) == start > length
\* if start+int64(len(buf)) > in.length
PastEOF(start, n, length) == start + n > length

\* in.readInternal(buf) of a slice (fileOffset, length) whose file pointer is
\* start, with n == len(buf), the base being at position pos
readInternal(fileOffset, length, start, n, pos) ==
    IF PastEOF(start, n, length)
    THEN [err |-> ReadPastEOF, out |-> <<>>, sought |-> <<>>, read |-> <<>>,
          pos |-> pos]
    ELSE LET r == ReadBytesBuffered(Seek(fileOffset + start), n)
         IN  [err |-> r.err, out |-> r.out,
              sought |-> <<fileOffset + start>>,
              read |-> << <<Seek(fileOffset + start), n>> >>,
              pos |-> r.pos]

\* a slice of the base reads n bytes at its file pointer start
ReadInternal(fileOffset, length, start, n) ==
    /\ fileOffset + length <= BaseLength
    /\ LET r == readInternal(fileOffset, length, start, n, basePos)
       IN  /\ basePos' = r.pos
           /\ sliceCall' = [fileOffset |-> fileOffset, length |-> length,
                            start |-> start, n |-> n, before |-> basePos,
                            err |-> r.err, out |-> r.out,
                            sought |-> r.sought, read |-> r.read]
    /\ sliceOp' = "readInternal"
    /\ UNCHANGED notSliceVars

\* a base input at its start, no slice read yet
SliceIdle ==
    /\ basePos = 0
    /\ sliceOp = "none"
    /\ sliceCall = [fileOffset |-> 0, length |-> 0, start |-> 0, n |-> 0,
                    before |-> 0, err |-> Nil, out |-> <<>>,
                    sought |-> <<>>, read |-> <<>>]

SliceNext ==
    \E fileOffset \in 0..BaseLength :
        \E length \in 0..(BaseLength - fileOffset),
           start \in 0..(BaseLength + 1), n \in 0..BaseLength :
            ReadInternal(fileOffset, length, start, n)

(***************************************************************************)
(* FSLockFactory: the lock directory                                       *)
(***************************************************************************)
\* the directories a caller can name; "" is the zero value of the field
LockDirs == {"", "a", "b"}

\* f.setLockDir(lockDir) on a factory whose field holds dir
setLockDir(dir, newDir) ==
    IF dir # ""
    THEN [lockDir |-> dir, panicked |-> TRUE]
    ELSE [lockDir |-> newDir, panicked |-> FALSE]

\* f.getLockDir()
getLockDir == lockDir

\* a caller sets the lock directory
SetLockDir(newDir) ==
    /\ Len(dirCalls) < MaxSetCalls
    /\ lockDir' = setLockDir(lockDir, newDir).lockDir
    /\ dirPanicked' = setLockDir(lockDir, newDir).panicked
    /\ dirCalls' = Append(dirCalls, newDir)
    /\ UNCHANGED notFactoryVars

\* newFSLockFactory()
FactoryIdle ==
    /\ lockDir = ""
    /\ dirCalls = <<>>
    /\ dirPanicked = FALSE

FactoryNext == \E newDir \in LockDirs : SetLockDir(newDir)

\* the components a specification does not exercise
ExtraIdle ==
    TrackIdle /\ BytesIdle /\ DeleterIdle /\ CmsIdle /\ SliceIdle /\ FactoryIdle

(***************************************************************************)
(* Specifications                                                          *)
(***************************************************************************)
\* the merge scheduler and its callers
Init == InitMerge(Queues) /\ PolicyIdle /\ LockIdle /\ ExtraIdle
Spec == Init /\ [][Next]_vars

\* the deletion policy and the lists it is called with
PolicyInit == InitMerge({<<>>}) /\ PolicyIdle /\ LockIdle /\ ExtraIdle
PolicySpec == PolicyInit /\ [][PolicyNext]_vars

\* one lock and the ObtainWithin calls on it
LockInit == InitMerge({<<>>}) /\ PolicyIdle /\ LockIdle /\ ExtraIdle
LockSpec == LockInit /\ [][LockNext]_vars

\* The callers of one scheduler instance, which is never cloned.
FairInit == InitMerge({QueueOf(n) : n \in 0..MaxDrain}) /\ PolicyIdle /\ LockIdle /\ ExtraIdle
FairNext ==
    \/ \E t \in Threads : CallMerge(t, 1, 1)
    \/ \E t \in Threads : Lock(t)
    \/ \E t \in Threads : NextMerge(t)
    \/ \E t \in Threads : DoMerge(t)
    \/ \E t \in Threads : Return(t)

\* A goroutine inside Merge keeps running: the Go scheduler runs every runnable
\* goroutine, and writer.merge is taken to return.
FairSpec ==
    /\ FairInit
    /\ [][FairNext]_vars
    /\ \A t \in Threads :
          WF_vars(NextMerge(t)) /\ WF_vars(DoMerge(t)) /\ WF_vars(Return(t))

\* a writer tracking its commits under KeepOnlyLastCommitDeletionPolicy
TrackInit == InitMerge({<<>>}) /\ PolicyIdle /\ LockIdle /\ ExtraIdle
TrackSpec == TrackInit /\ [][TrackNext]_vars

\* a BytesStore of any block size, written and then read forward
BytesInit ==
    /\ InitMerge({<<>>}) /\ PolicyIdle /\ LockIdle /\ TrackIdle
    /\ DeleterIdle /\ CmsIdle /\ SliceIdle /\ FactoryIdle
    /\ \E bits \in 0..MaxBlockBits : BytesNew(bits)
BytesSpec == BytesInit /\ [][BytesNext]_vars

\* a deleter receiving checkpoints
DeleterInit == InitMerge({<<>>}) /\ PolicyIdle /\ LockIdle /\ ExtraIdle
DeleterSpec == DeleterInit /\ [][DeleterNext]_vars

\* a concurrent scheduler and a writer with pending merges
CmsInit ==
    /\ InitMerge({<<>>}) /\ PolicyIdle /\ LockIdle /\ TrackIdle
    /\ BytesIdle /\ DeleterIdle /\ SliceIdle /\ FactoryIdle
    /\ \E p \in PendingMerges : CmsNew(p)
CmsSpec == CmsInit /\ [][CmsNext]_vars

\* a written BytesStore and a forward reader moved about inside its blocks
ReaderInit ==
    /\ InitMerge({<<>>}) /\ PolicyIdle /\ LockIdle /\ TrackIdle
    /\ DeleterIdle /\ CmsIdle /\ SliceIdle /\ FactoryIdle
    /\ \E bits \in 0..MaxBlockBits, buf \in PatternBuffers : BytesWritten(bits, buf)
ReaderSpec == ReaderInit /\ [][ReaderNext]_vars

\* slices of one base input read through readInternal
SliceInit == InitMerge({<<>>}) /\ PolicyIdle /\ LockIdle /\ ExtraIdle
SliceSpec == SliceInit /\ [][SliceNext]_vars

\* a lock factory whose directory is set again and again
FactoryInit == InitMerge({<<>>}) /\ PolicyIdle /\ LockIdle /\ ExtraIdle
FactorySpec == FactoryInit /\ [][FactoryNext]_vars

\* The same callers, with the mutex handing the lock to every goroutine that
\* keeps waiting for it (sync.Mutex's starvation mode): Lock is strongly fair.
FairLockSpec ==
    /\ FairInit
    /\ [][FairNext]_vars
    /\ \A t \in Threads :
          /\ WF_vars(NextMerge(t)) /\ WF_vars(DoMerge(t)) /\ WF_vars(Return(t))
          /\ SF_vars(Lock(t))

(***************************************************************************)
(* Claims about SerialMergeScheduler                                       *)
(***************************************************************************)
\* goroutine t holds the scheduler's lock: it is inside the drain loop
InLoop(t) == pc[t] \in {"next", "merge", "exit"}
\* the merges goroutine t passed to writer.merge, in order
ExecutedMerges(t) == [i \in 1..Len(executed[t]) |-> executed[t][i][1]]
\* no writer.merge call of goroutine t's current Merge call has failed
NoFailure(t) == \A i \in 1..Len(executed[t]) : executed[t][i][2] = Nil
\* a sequence without repetitions
Distinct(q) == \A i, j \in 1..Len(q) : q[i] = q[j] => i = j

\* C1: Merge stops at the first failing merge: a writer.merge call that returned
\* an error is the last one of its Merge call, no further merge is about to be
\* passed to writer.merge, and the error Merge holds and returns is exactly the
\* error of that merge.
C1_StopsAtFirstFailure ==
    \A t \in Threads : \A i \in 1..Len(executed[t]) :
        executed[t][i][2] # Nil =>
            /\ i = Len(executed[t])
            /\ pc[t] # "merge"
            /\ err[t] = executed[t][i][2]
            /\ err[t] = MergeError(writer[t], executed[t][i][1])

\* C1 witness: Merge on the queue [m1, m2] returns after m1 failed: m1 is the
\* only merge executed and its error is the result.
C1_Witness ==
    \E t \in Threads :
        /\ pc[t] = "exit"
        /\ pulled[t] = <<1, 2>>
        /\ executed[t] = <<(<<1, MergeError(writer[t], 1)>>)>>
        /\ err[t] = MergeError(writer[t], 1)

\* C2 (safety part): while no merge fails, the merges passed to writer.merge
\* are the merges nextMerge yielded, each once and in that order, at most the
\* one in flight not yet executed; Merge returns nil only after nextMerge
\* returned none.
C2_DrainsInOrder ==
    \A t \in Threads :
        /\ NoFailure(t) =>
              /\ Distinct(pulled[t])
              /\ IF pc[t] = "merge"
                   THEN pulled[t] = Append(ExecutedMerges(t), merge[t])
                   ELSE pulled[t] = ExecutedMerges(t)
        /\ (pc[t] = "exit" /\ NoFailure(t)) => (err[t] = Nil /\ merge[t] = NoMerge)
        /\ (pc[t] = "exit" /\ err[t] = Nil) => merge[t] = NoMerge

\* C2: when no merge fails Merge executes every merge the writer yields exactly
\* once and in order, returns nil only after nextMerge returned none, and every
\* call that entered the drain loop returns.
C2_DrainsAndTerminates ==
    /\ []C2_DrainsInOrder
    /\ \A t \in Threads : InLoop(t) ~> (pc[t] = "idle")

\* C2 witness: a Merge call returns nil after executing both merges of the
\* queue [m1, m2], in order.
C2_Witness ==
    \E t \in Threads :
        /\ pc[t] = "exit"
        /\ err[t] = Nil
        /\ executed[t] = <<(<<1, Nil>>), (<<2, Nil>>)>>
        /\ pulled[t] = <<1, 2>>

\* C3: at most one caller of Merge is inside the drain loop of a scheduler
\* instance at any time.
C3_MutualExclusion ==
    \A t, u \in Threads :
        (t # u /\ InLoop(t) /\ InLoop(u)) => ms[t] # ms[u]

\* C3 witness: a goroutine is about to run a merge inside the drain loop
\* while another one waits for the lock of the same instance.
C3_Witness ==
    \E t, u \in Threads :
        /\ t # u
        /\ ms[t] = ms[u]
        /\ pc[t] = "merge"
        /\ pc[u] = "lock"

\* C10: a clone has a lock of its own: a Merge caller waiting for an instance
\* on which no other call is in progress can take the lock, whatever calls are
\* in progress on other instances, and each instance keeps its own callers
\* mutually exclusive.
C10_CloneIndependent ==
    /\ \A t \in Threads :
          (pc[t] = "lock" /\ ~\E u \in Threads : u # t /\ ms[u] = ms[t] /\ InLoop(u))
              => ENABLED Lock(t)
    /\ \A t, u \in Threads :
          ~(t # u /\ InLoop(t) /\ InLoop(u) /\ ms[t] = ms[u])

\* C10 witness: a Merge call runs a merge on the original while another runs a
\* merge on its clone.
C10_Witness ==
    \E t, u \in Threads :
        /\ ms[t] = 1 /\ pc[t] = "merge"
        /\ ms[u] = 2 /\ pc[u] = "merge"

(***************************************************************************)
(* Claims about KeepOnlyLastCommitDeletionPolicy                           *)
(***************************************************************************)
\* C4: onCommit and onInit call Delete() exactly once on every commit of the
\* list except the last, never on the last one nor on any other commit, make
\* no call for an empty or single-element list, and return no error.
C4_DeletesAllButLast ==
    policyOp \in {"onInit", "onCommit"} =>
        /\ \A i \in 1..Len(commits) :
              Count(commits[i], deleteCalls) = IF i < Len(commits) THEN 1 ELSE 0
        /\ \A j \in 1..Len(deleteCalls) :
              \E i \in 1..Len(commits) : commits[i] = deleteCalls[j]
        /\ Len(commits) <= 1 => deleteCalls = <<>>
        /\ policyErr = Nil

\* C4 witness: onCommit on [c1, c2, c3] has deleted exactly c1 and c2.
C4_Witness ==
    /\ policyOp = "onCommit"
    /\ commits = <<1, 2, 3>>
    /\ deleteCalls = <<1, 2>>

(***************************************************************************)
(* Claims about LockImpl.ObtainWithin                                      *)
(***************************************************************************)
\* C5: with an Obtain that always fails without error and a finite timeout
\* T >= 0, consecutive attempts are one poll interval apart, at least two
\* attempts are made when T >= 1000, and the timeout error is returned once the
\* accumulated wait has reached T and before it reaches T + 1000 ms.
C5_TimeoutWithinWindow ==
    (lockPc = "returned" /\ lockWaitTimeout >= 0 /\ onlyFailed) =>
        /\ IsTimeout(lockErr)
        /\ slept = (attempts - 1) * LOCK_POOL_INTERVAL
        /\ lockWaitTimeout >= LOCK_POOL_INTERVAL => attempts >= 2
        /\ slept >= lockWaitTimeout
        /\ slept < lockWaitTimeout + LOCK_POOL_INTERVAL

\* C6: with a finite timeout T >= 0 no Obtain attempt starts after more than T
\* milliseconds of poll sleeping, and with T = 0 there is exactly one attempt
\* and no sleep.
C6_NoAttemptPastTimeout ==
    (lockPc # "idle" /\ lockWaitTimeout >= 0) =>
        /\ slept <= lockWaitTimeout
        /\ slept = (attempts - 1) * LOCK_POOL_INTERVAL
        /\ lockWaitTimeout = 0 => (attempts = 1 /\ slept = 0)

\* C6 witness: a call with a timeout of two poll intervals gave up after its
\* last attempt, made exactly at the timeout.
C6_Witness ==
    /\ lockPc = "returned"
    /\ IsTimeout(lockErr)
    /\ lockWaitTimeout = 2 * LOCK_POOL_INTERVAL
    /\ slept = lockWaitTimeout
    /\ attempts = 3

\* C7: called with LOCK_OBTAIN_WAIT_FOREVER, ObtainWithin never returns a
\* timeout error and never rejects the timeout; it polls once per interval, a
\* failed attempt without error is always followed by another one, and the
\* first attempt that succeeds is the last one, returned as (true, nil).
C7_WaitForever ==
    (lockPc # "idle" /\ lockWaitTimeout = LOCK_OBTAIN_WAIT_FOREVER) =>
        /\ ~IsTimeout(lockErr)
        /\ lockPc # "panicked"
        /\ slept = (attempts - 1) * LOCK_POOL_INTERVAL
        /\ lockPc = "returned" => (locked \/ attempts = 1)
        /\ (lockPc = "loop" /\ ~locked /\ attempts < MaxAttempts) => ENABLED Sleep
        /\ lockPc = "sleeping" =>
              (~locked /\ ENABLED (\E o \in ObtainOutcomes : WakeAndObtain(o)))
        /\ firstSuccess # 0 =>
              (attempts = firstSuccess /\ locked /\ lockErr = Nil)

\* C7 witness: a wait-forever call returned (true, nil) at its third attempt.
C7_Witness ==
    /\ lockPc = "returned"
    /\ lockWaitTimeout = LOCK_OBTAIN_WAIT_FOREVER
    /\ firstSuccess = 3
    /\ attempts = 3
    /\ locked
    /\ lockErr = Nil

\* C8: when ObtainWithin gives up it returns locked = false and a timeout
\* error, which is not an error of Obtain and which carries the reason the
\* last recording Obtain attempt of this call left on the lock, if any did;
\* it gives up only on a finite timeout, and a call that returns without the
\* lock after polling returns the timeout error.
C8_TimeoutErrorCarriesCause ==
    /\ (lockPc = "returned" /\ IsTimeout(lockErr)) =>
          /\ ~locked
          /\ lockWaitTimeout >= 0
          /\ lockErr # ObtainError
          /\ lockErr = TimeoutError(recorded)
          /\ recorded # Nil => lockErr = <<"Lock obtain time out", recorded>>
    /\ (lockPc = "returned" /\ ~locked /\ attempts > 1) => IsTimeout(lockErr)

\* C8 witness: a call gave up after a later attempt recorded a failure reason.
C8_Witness ==
    /\ lockPc = "returned"
    /\ IsTimeout(lockErr)
    /\ attempts = 3
    /\ recorded = <<"reason", 2>>
    /\ lockErr = <<"Lock obtain time out", <<"reason", 2>>>>

\* C9: a call with an invalid timeout never sleeps, makes no second Obtain
\* attempt, and its outcome is the configuration error, whatever Obtain does.
C9_InvalidTimeoutRejected ==
    (lockPc # "idle" /\ ~ValidTimeout(lockWaitTimeout)) =>
        /\ slept = 0
        /\ attempts <= 1
        /\ lockPc = "panicked"

(***************************************************************************)
(* Further claims about SerialMergeScheduler                               *)
(***************************************************************************)
\* C13: every merge nextMerge handed to a Merge call is passed to
\* writer.merge: when the call returns, no merge was dequeued and dropped.
C13_NoMergeDropped ==
    \A t \in Threads :
        pc[t] = "exit" => pulled[t] = ExecutedMerges(t)

\* the lock of scheduler instance s is free whenever no call is inside it
LockFreeWhenNoCall ==
    \A s \in 1..Len(locker) :
        (~\E t \in Threads : InLoop(t) /\ ms[t] = s) => ~mutexes[locker[s]]

\* a return leaves the lock of its instance free, with or without an error
ReturnReleases ==
    \A t \in Threads :
        (pc[t] = "exit" /\ pc'[t] = "idle") => ~mutexes'[locker[ms[t]]]

\* C14: Merge releases its lock on every exit path: the lock is free whenever
\* no Merge call is in progress on the instance, also after a return with an
\* error, so every caller waiting for the lock enters the drain loop, and
\* every Merge call returns.
C14_LockReleasedOnEveryPath ==
    /\ []LockFreeWhenNoCall
    /\ [][ReturnReleases]_vars
    /\ \A t \in Threads : (pc[t] = "lock") ~> InLoop(t)
    /\ \A t \in Threads : (pc[t] # "idle") ~> (pc[t] = "idle")

\* C14 witness: a Merge call is about to return an error while another caller
\* waits for the lock of the same instance.
C14_Witness ==
    \E t, u \in Threads :
        /\ pc[t] = "exit" /\ err[t] # Nil
        /\ pc[u] = "lock" /\ ms[u] = ms[t]

(***************************************************************************)
(* Further claims about LockImpl.ObtainWithin                              *)
(***************************************************************************)
\* C15: an error returned by any Obtain call, the first or a later one, ends the
\* polling: the call has returned it, or is leaving the loop to return it.
C15_ObtainErrorReturned ==
    (lockPc # "idle" /\ lockErr = ObtainError) =>
        (lockPc = "returned" \/ (lockPc = "loop" /\ locked))

\* C16: a call rejected for its invalid timeout has not acquired the lock.
C16_RejectedCallHoldsNothing ==
    lockPc = "panicked" => (~locked /\ firstSuccess = 0)

(***************************************************************************)
(* Further claims about KeepOnlyLastCommitDeletionPolicy                   *)
(***************************************************************************)
\* C17: with a writer that tracks its commits (one more per commit, the deleted
\* ones forgotten before the next call), every onCommit after onInit receives
\* at most 2 commits, and after every onInit and onCommit exactly the most
\* recent commit of the list is left undeleted (none when the list is empty).
C17_AtMostTwoAndLastRemains ==
    trackPc = "open" =>
        /\ policyOp = "onCommit" => Len(commits) \in 1..2
        /\ tracked = IF commits = <<>> THEN <<>> ELSE <<commits[Len(commits)]>>
        /\ \A i \in 1..Len(commits) :
               Count(commits[i], deleteCalls) = IF i < Len(commits) THEN 1 ELSE 0

\* C17 witness: an onCommit received 2 commits, the one the policy had kept and
\* the new one, and only the new one is still tracked.
C17_Witness ==
    /\ trackPc = "open"
    /\ policyOp = "onCommit"
    /\ Len(commits) = 2
    /\ deleteCalls = <<commits[1]>>
    /\ tracked = <<commits[2]>>

(***************************************************************************)
(* Claims about BytesStore                                                 *)
(***************************************************************************)
\* C18: the bytes written through WriteByte/WriteBytes come back, in order,
\* from the forward reader's ReadByte/ReadBytes, whatever the number of blocks
\* (one block included): what the reader has returned so far is the start of
\* what was written, and no read fails.
C18_ReadsReturnWhatWasWritten ==
    reader.kind # "none" =>
        /\ ~reader.panicked
        /\ Len(readLog) <= Len(written)
        /\ readLog = SubSeq(written, 1, Len(readLog))

\* C19: WriteBytes(buf) leaves the store (blocks, their contents, current,
\* nextWrite) as WriteByte called for each byte of buf in turn leaves it, for
\* the empty buffer and for buffers ending on or spanning block boundaries too.
C19_WriteBytesAsWriteByte ==
    lastOp = "WriteBytes" => store = WriteEachByte(prevStore, lastBuf)

\* C19 witness: a WriteBytes that started inside a block, crossed a block
\* boundary and ended exactly on one.
C19_Witness ==
    /\ lastOp = "WriteBytes"
    /\ store.blockSize >= 2
    /\ prevStore.nextWrite \in 1..(prevStore.blockSize - 1)
    /\ Len(store.blocks) > Len(prevStore.blocks)
    /\ store.nextWrite = store.blockSize
    /\ store = WriteEachByte(prevStore, lastBuf)

\* C20: after any writes 0 <= nextWrite <= blockSize, every block has exactly
\* blockSize bytes, the bytes written number (len(blocks)-1)*blockSize +
\* nextWrite, a block is allocated only for a byte that needs it (the last
\* block holds at least one byte), and no write indexed past the end of the
\* current block.
C20_StoreShape ==
    /\ ~store.panicked
    /\ store.nextWrite \in 0..store.blockSize
    /\ \A i \in 1..Len(store.blocks) : Len(store.blocks[i]) = store.blockSize
    /\ Len(written) = (Len(store.blocks) - 1) * store.blockSize + store.nextWrite
    /\ store.current = Len(store.blocks)
    /\ store.blocks # <<>> => store.nextWrite >= 1

\* C20 witness: byte-by-byte writes have filled a second block to its end.
C20_Witness ==
    /\ lastOp = "WriteByte"
    /\ store.blockSize >= 2
    /\ Len(store.blocks) >= 2
    /\ store.nextWrite = store.blockSize
    /\ Len(written) = Len(store.blocks) * store.blockSize

(***************************************************************************)
(* Claims about IndexFileDeleter                                           *)
(***************************************************************************)
\* C11: after any sequence of checkpoint calls, commits or not, the calls
\* have completed and every file's reference count is non-negative and equal
\* to the number of live generations and retained commits naming the file.
C11_RefCountsMatchLive ==
    checkpoints # <<>> =>
        /\ ~delPanicked
        /\ \A f \in Files : RefCount(f) >= 0 /\ RefCount(f) = LiveCount(f)

(***************************************************************************)
(* Claims about ConcurrentMergeScheduler                                   *)
(***************************************************************************)
\* the largest number of merges allowed to run at once, as last configured
MaxRunning == IF requested = Nil THEN Len(pending) ELSE requested[1]

\* the sizes of q, smallest first
RECURSIVE SmallestFirst(_)
SmallestFirst(q) ==
    IF q = <<>> THEN <<>>
    ELSE LET i == CHOOSE k \in 1..Len(q) : \A j \in 1..Len(q) : q[k] <= q[j]
         IN  <<q[i]>> \o SmallestFirst(SubSeq(q, 1, i - 1) \o SubSeq(q, i + 1, Len(q)))

\* C12: once Merge has been called with more merges pending than may run at
\* once, the smaller merges have been admitted before the larger ones (for
\* sizes 10, 1, 1 and a maximum of 2: both merges of size 1 first), and no
\* more merges run than the configured maximum.
C12_SmallerMergesFirst ==
    (cmsLast = "Merge" /\ cmsPc = "idle") =>
        /\ ~cmsPanicked
        /\ Len(admitted) <= MaxRunning
        /\ Len(pending) > MaxRunning =>
               admitted = SubSeq(SmallestFirst(pending), 1, MaxRunning)

(***************************************************************************)
(* Claims about the multi-block forward reader                             *)
(***************************************************************************)
\* the byte at absolute offset p of the store's blocks
ByteAt(st, p) == st.blocks[(p \div st.blockSize) + 1][(p % st.blockSize) + 1]

\* C21: for the multi-block forward reader, after any ReadByte, ReadBytes,
\* skipBytes and setPosition calls that stay inside the allocated blocks, no
\* call has failed and getPosition() is the absolute offset of the next byte
\* to be read: 0 initially, pos right after setPosition(pos), n more after
\* skipBytes(n), and a ReadByte returns the byte at the offset it has passed.
C21_PositionIsNextOffset ==
    reader.kind = "multi" =>
        /\ ~reader.panicked
        /\ getPosition(reader, store) = expectedPos
        /\ lastOp = "forwardReader" => getPosition(reader, store) = 0
        /\ lastOp = "setPosition" => getPosition(reader, store) = lastArg
        /\ lastOp = "skipBytes" => getPosition(reader, store) = prevPos + lastArg
        /\ lastOp = "ReadByte" =>
               readLog[Len(readLog)] = ByteAt(store, getPosition(reader, store) - 1)

\* C21 witness: a skipBytes that started inside one block, past the start of
\* the data, and ended inside a later block.
C21_Witness ==
    /\ reader.kind = "multi"
    /\ lastOp = "skipBytes"
    /\ lastArg > 0
    /\ prevPos > 0
    /\ store.blockSize >= 2
    /\ prevPos \div store.blockSize < expectedPos \div store.blockSize
    /\ expectedPos % store.blockSize # 0
    /\ getPosition(reader, store) = expectedPos

(***************************************************************************)
(* Claims about SlicedIndexInput.readInternal                              *)
(***************************************************************************)
\* the base offsets the reads of the last readInternal call covered
OffsetsRead ==
    UNION {{sliceCall.read[i][1] + k : k \in 0..(sliceCall.read[i][2] - 1)} :
              i \in 1..Len(sliceCall.read)}

\* C22: readInternal never reads base bytes outside the slice's window
\* [fileOffset, fileOffset+length): when the file pointer plus len(buf)
\* exceeds the slice's length it returns a read-past-EOF error and neither
\* seeks nor reads the base; otherwise it seeks the base to fileOffset + file
\* pointer and reads exactly len(buf) bytes from there.
C22_ReadsInsideWindow ==
    sliceOp = "readInternal" =>
        LET c == sliceCall
        IN  /\ OffsetsRead \subseteq c.fileOffset..(c.fileOffset + c.length - 1)
            /\ IF c.start + c.n > c.length
               THEN /\ c.err = ReadPastEOF
                    /\ c.sought = <<>> /\ c.read = <<>>
                    /\ basePos = c.before
               ELSE /\ c.err = Nil
                    /\ c.sought = <<c.fileOffset + c.start>>
                    /\ c.read = << <<c.fileOffset + c.start, c.n>> >>
                    /\ c.out = [i \in 1..c.n |-> BaseByte(c.fileOffset + c.start + i - 1)]
                    /\ basePos = c.fileOffset + c.start + c.n

\* C22 witness: a read that ends exactly at the end of a slice lying inside
\* the base, made while the base was positioned outside the slice.
C22_Witness ==
    /\ sliceOp = "readInternal"
    /\ sliceCall.fileOffset > 0
    /\ sliceCall.fileOffset + sliceCall.length < BaseLength
    /\ sliceCall.n > 0
    /\ sliceCall.start > 0
    /\ sliceCall.start + sliceCall.n = sliceCall.length
    /\ sliceCall.before > sliceCall.fileOffset + sliceCall.length
    /\ sliceCall.err = Nil
    /\ Len(sliceCall.out) = sliceCall.n

(***************************************************************************)
(* Claims about FSLockFactory                                              *)
(***************************************************************************)
\* C23: the lock directory can be set only once: the first setLockDir call
\* fixes it, every later call panics and leaves it unchanged, so getLockDir
\* always returns the value given to the first call.
C23_LockDirSetOnce ==
    dirCalls # <<>> =>
        /\ getLockDir = dirCalls[1]
        /\ dirPanicked = (Len(dirCalls) >= 2)

====
